---- MODULE Spec2Model ----
(***************************************************************************)
(* GeneExpressionProcessor.cluster_data (backend/app.py): z-score each     *)
(* gene across its samples, cluster genes and samples by average-linkage   *)
(* agglomeration on Euclidean distances, read the leaf order off each      *)
(* tree, reorder the matrix and package the result.                        *)
(*                                                                         *)
(* Numbers.  A float is modelled in fixed point: a normalized value v is   *)
(* the integer floor(|v| * Scale) with v's sign, a Euclidean distance is   *)
(* the integer square root of the sum of squared differences.  Cluster     *)
(* distances (averages of those) are exact fractions [num, den].  NaN is a *)
(* value of its own.  Identifiers and positions are 0-based as in the      *)
(* code; sequences are 1-based, so item i is element i + 1.                *)
(***************************************************************************)
EXTENDS Integers, Sequences, FiniteSets, TLC

VARIABLES pc, data_df, normalized_data, row_linkage, row_order,
          col_linkage, col_order, result

vars == <<pc, data_df, normalized_data, row_linkage, row_order,
          col_linkage, col_order, result>>

\* ------------------------------------------------------------------ bounds

\* Largest number of cells of a frame without missing values.
MaxCells == 10

\* Largest number of cells of a frame that may hold missing values.
MaxMissingCells == 6

\* Largest number of genes (rows) of a frame.
MaxGenes == 5

\* ------------------------------------------------------------- arithmetic

\* Fixed-point unit of a normalized value.
Scale == 100

\* The missing marker (float NaN), outside the range of every finite value.
NaN == -1000000

\* Python's None for a linkage or a dendrogram.
None == [present |-> FALSE]

Range0(n) == 0 .. (n - 1)

RECURSIVE ISqrtIn(_, _, _)
ISqrtIn(n, lo, hi) ==
    IF hi - lo <= 1 THEN lo
    ELSE LET mid == (lo + hi) \div 2
         IN  IF mid * mid <= n THEN ISqrtIn(n, mid, hi) ELSE ISqrtIn(n, lo, mid)

\* floor(sqrt(n))
ISqrt(n) == ISqrtIn(n, 0, 46341)

RECURSIVE Gcd(_, _)
Gcd(a, b) == IF b = 0 THEN a ELSE Gcd(b, a % b)

\* The fraction num/den in lowest terms (den > 0).
Rat(num, den) ==
    LET g == Gcd(num, den)
    IN  [num |-> num \div g, den |-> den \div g]

\* +infinity, greater than every fraction.
Inf == [num |-> 1, den |-> 0]

RatLess(a, b) == a.num * b.den < b.num * a.den

RatLeq(a, b) == a.num * b.den <= b.num * a.den

RECURSIVE SeqSum(_, _)
SeqSum(s, k) == IF k = 0 THEN 0 ELSE s[k] + SeqSum(s, k - 1)

\* ----------------------------------------------------------------- frames

GeneNames == <<"GENE_A", "GENE_B", "GENE_C", "GENE_D", "GENE_E", "GENE_F",
               "GENE_G", "GENE_H", "GENE_I", "GENE_J", "GENE_K", "GENE_L">>

SampleNames == <<"S1", "S2", "S3", "S4", "S5", "S6",
                 "S7", "S8", "S9", "S10", "S11", "S12">>

\* Values a cell of a complete frame takes.
FiniteValues == {0, 1}

\* Values a cell takes in a frame with missing values.
CellValues == FiniteValues \cup {NaN}

\* A DataFrame: row labels, column labels, values by row.
Frame(m, n, values) ==
    [index   |-> SubSeq(GeneNames, 1, m),
     columns |-> SubSeq(SampleNames, 1, n),
     values  |-> values]

Frames(cells, cap) ==
    UNION { { Frame(m, n, v) : v \in [1 .. m -> [1 .. n -> cells]] } :
            <<m, n>> \in { s \in (0 .. MaxGenes) \X (1 .. cap) : s[1] * s[2] <= cap } }

\* What get_expression_data hands to cluster_data: pd.DataFrame() when the
\* dataset is not loaded, else the rows of the dataset whose gene is in the
\* list, over all the dataset's samples (at least one).
ExpressionFrames ==
    {Frame(0, 0, <<>>)} \cup Frames(FiniteValues, MaxCells)
                        \cup Frames(CellValues, MaxMissingCells)

Shape0(df) == Len(df.index)

Shape1(df) == Len(df.columns)

\* DataFrame.empty
Empty(df) == Shape0(df) = 0 \/ Shape1(df) = 0

\* ndarray.T of an m x n array
Transpose(X, m, n) == [j \in 1 .. n |-> [i \in 1 .. m |-> X[i][j]]]

\* ------------------------------------------------------------- normalizer

\* StandardScaler on one feature (one column of the array it is given):
\* mean and population variance over the values that are not NaN, the scale
\* set to 1 when the variance is 0, NaN kept as NaN.  With n values of sum S
\* and d = n*x - S, Q = sum of d^2:  (x - mean)/std = d * sqrt(n/Q).
ScaleFeature(col) ==
    LET len   == Len(col)
        seen  == [j \in 1 .. len |-> IF col[j] = NaN THEN 0 ELSE 1]
        n     == SeqSum(seen, len)
        S     == SeqSum([j \in 1 .. len |-> IF col[j] = NaN THEN 0 ELSE col[j]], len)
        d     == [j \in 1 .. len |-> IF col[j] = NaN THEN 0 ELSE n * col[j] - S]
        Q     == SeqSum([j \in 1 .. len |-> d[j] * d[j]], len)
    IN  [j \in 1 .. len |->
           IF col[j] = NaN THEN NaN
           ELSE IF Q = 0 THEN 0
           ELSE LET z == ISqrt((d[j] * d[j] * n * Scale * Scale) \div Q)
                IN  IF d[j] < 0 THEN -z ELSE z]

\* StandardScaler().fit_transform(X): every column of the m x n array X.
FitTransform(X, m, n) ==
    LET XT == Transpose(X, m, n)
        ZT == [j \in 1 .. n |-> ScaleFeature(XT[j])]
    IN  Transpose(ZT, n, m)

\* np.nan_to_num(X, nan=0.0)
NanToNum(X) ==
    [i \in DOMAIN X |-> [j \in DOMAIN X[i] |-> IF X[i][j] = NaN THEN 0 ELSE X[i][j]]]

\* scaler.fit_transform(data_df.T).T
NormalizeRows(df) ==
    LET m == Shape0(df)
        n == Shape1(df)
    IN  Transpose(FitTransform(Transpose(df.values, m, n), n, m), n, m)

\* --------------------------------------------------------------- distance

\* condensed_index: the unordered pair {i, j}
PairIdx(i, j) == IF i < j THEN <<i, j>> ELSE <<j, i>>

Pairs(n) == { p \in Range0(n) \X Range0(n) : p[1] < p[2] }

\* Euclidean distance of two points of equal length.
Euclid(a, b) ==
    ISqrt(SeqSum([k \in 1 .. Len(a) |-> (a[k] - b[k]) * (a[k] - b[k])], Len(a)))

\* pdist(X, metric='euclidean') of the n observations (rows) of X.
Pdist(X, n) == [p \in Pairs(n) |-> Euclid(X[p[1] + 1], X[p[2] + 1])]

\* -------------------------------------------------------- linkage (nn_chain)

\* Faulty variant of the update: the unweighted mean (d_xi + d_yi) / 2 of
\* weighted linkage, which ignores the cluster sizes.
NewDistWeighted(dxi, dyi, nx, ny) ==
    Rat(dxi.num * dyi.den + dyi.num * dxi.den, 2 * dxi.den * dyi.den)

\* Average linkage's distance update:
\* (size_x * d_xi + size_y * d_yi) / (size_x + size_y)
NewDistAverage(dxi, dyi, nx, ny) ==
    Rat(nx * dxi.num * dyi.den + ny * dyi.num * dxi.den,
        (nx + ny) * dxi.den * dyi.den)

\* The scan for x's nearest live cluster: from i upward, a cluster replaces
\* the current candidate y only when it is strictly nearer.
RECURSIVE ScanNearest(_, _, _, _, _, _, _)
ScanNearest(D, size, n, x, i, y, cur) ==
    IF i = n THEN [y |-> y, min |-> cur]
    ELSE IF size[i] = 0 \/ x = i THEN ScanNearest(D, size, n, x, i + 1, y, cur)
    ELSE LET dist == D[PairIdx(x, i)]
         IN  IF RatLess(dist, cur)
             THEN ScanNearest(D, size, n, x, i + 1, i, dist)
             ELSE ScanNearest(D, size, n, x, i + 1, y, cur)

\* Follow nearest neighbours from the end of the chain until two clusters
\* are each other's nearest; the previous chain element is preferred.
RECURSIVE GrowChain(_, _, _, _)
GrowChain(D, size, n, chain) ==
    LET len  == Len(chain)
        x    == chain[len]
        prev == IF len > 1 THEN chain[len - 1] ELSE 0
        cur0 == IF len > 1 THEN D[PairIdx(x, prev)] ELSE Inf
        near == ScanNearest(D, size, n, x, 0, prev, cur0)
    IN  IF len > 1 /\ near.y = prev
        THEN [chain |-> chain, x |-> x, y |-> near.y, min |-> near.min]
        ELSE GrowChain(D, size, n, Append(chain, near.y))

\* The first live cluster.
FirstLive(size, n) == CHOOSE i \in Range0(n) :
                          size[i] > 0 /\ \A j \in Range0(n) : size[j] > 0 => i <= j

\* One pass of nn_chain's outer loop: find a pair of mutual nearest
\* neighbours, record their merge, keep the merged cluster in slot y.
MergeStep(st, n) ==
    LET chain0 == IF Len(st.chain) = 0 THEN <<FirstLive(st.size, n)>> ELSE st.chain
        found  == GrowChain(st.D, st.size, n, chain0)
        x      == IF found.x > found.y THEN found.y ELSE found.x
        y      == IF found.x > found.y THEN found.x ELSE found.y
        nx     == st.size[x]
        ny     == st.size[y]
        size1  == [st.size EXCEPT ![x] = 0, ![y] = nx + ny]
    IN  [D     |-> [p \in DOMAIN st.D |->
                      LET i == IF p[1] = y THEN p[2] ELSE p[1]
                      IN  IF y \in {p[1], p[2]} /\ size1[i] # 0
                          THEN NewDistAverage(st.D[PairIdx(i, x)], st.D[p], nx, ny)
                          ELSE st.D[p]],
         size  |-> size1,
         chain |-> SubSeq(found.chain, 1, Len(found.chain) - 2),
         Z     |-> Append(st.Z, [x |-> x, y |-> y, dist |-> found.min,
                                 count |-> nx + ny])]

RECURSIVE NNChainLoop(_, _, _)
NNChainLoop(st, n, k) == IF k = 0 THEN st ELSE NNChainLoop(MergeStep(st, n), n, k - 1)

\* nn_chain before sorting and labelling: the n - 1 merges as found.
NNChain(dists, n) ==
    NNChainLoop([D     |-> [p \in Pairs(n) |-> Rat(dists[p], 1)],
                 size  |-> [i \in Range0(n) |-> 1],
                 chain |-> <<>>,
                 Z     |-> <<>>], n, n - 1).Z

\* Insert e behind every element whose distance is not greater (stable).
RECURSIVE InsertStable(_, _)
InsertStable(s, e) ==
    IF s = <<>> THEN <<e>>
    ELSE IF RatLess(e.dist, s[Len(s)].dist)
         THEN Append(InsertStable(SubSeq(s, 1, Len(s) - 1), e), s[Len(s)])
         ELSE Append(s, e)

RECURSIVE SortByDist(_, _)
SortByDist(Z, k) == IF k = 0 THEN <<>> ELSE InsertStable(SortByDist(Z, k - 1), Z[k])

\* np.argsort(Z[:, 2], kind='mergesort'): a stable sort by merge distance.
StableSort(Z) == SortByDist(Z, Len(Z))

\* LinkageUnionFind.find
RECURSIVE Find(_, _)
Find(parent, x) == IF parent[x] = x THEN x ELSE Find(parent, parent[x])

\* label: replace each merge's slots by the identifiers of the clusters
\* they stand for, the smaller first; merge i creates identifier n + i.
RECURSIVE Label(_, _, _, _, _)
Label(Z, n, i, parent, out) ==
    IF i > Len(Z) THEN out
    ELSE LET xr  == Find(parent, Z[i].x)
             yr  == Find(parent, Z[i].y)
             new == n + i - 1
         IN  Label(Z, n, i + 1,
                   [parent EXCEPT ![xr] = new, ![yr] = new],
                   Append(out, [left  |-> IF xr < yr THEN xr ELSE yr,
                                right |-> IF xr < yr THEN yr ELSE xr,
                                dist  |-> Z[i].dist,
                                count |-> Z[i].count]))

\* Faulty variant of linkage: the sorted merges are returned with the slots
\* nn_chain kept them in, the relabelling to cluster identifiers left out.
LinkageUnlabelled(X, n) ==
    LET Z == StableSort(NNChain(Pdist(X, n), n))
    IN  [i \in 1 .. Len(Z) |-> [left  |-> Z[i].x,
                                right |-> Z[i].y,
                                dist  |-> Z[i].dist,
                                count |-> Z[i].count]]

\* linkage(X, method='average', metric='euclidean') of the n rows of X.
Linkage(X, n) ==
    Label(StableSort(NNChain(Pdist(X, n), n)), n, 1,
          [i \in Range0(2 * n - 1) |-> i], <<>>)

\* ------------------------------------------------------------- dendrogram

\* Faulty variant of the traversal: the right child's leaves come first.
RECURSIVE LeavesRightFirst(_, _, _)
LeavesRightFirst(Z, n, i) ==
    IF i < n THEN <<i>>
    ELSE LeavesRightFirst(Z, n, Z[i - n + 1].right)
            \o LeavesRightFirst(Z, n, Z[i - n + 1].left)

\* dendrogram(Z, no_plot=True)['leaves']: from node i, the left child's
\* leaves and then the right child's.
RECURSIVE Leaves(_, _, _)
Leaves(Z, n, i) ==
    IF i < n THEN <<i>>
    ELSE Leaves(Z, n, Z[i - n + 1].left) \o Leaves(Z, n, Z[i - n + 1].right)

\* Faulty variant: the traversal starts at the first merge (identifier n)
\* instead of the root.
DendrogramLeavesFromFirstMerge(Z, n) == Leaves(Z, n, n)

\* The traversal from the root, the last merge (identifier 2n - 2).
DendrogramLeaves(Z, n) == Leaves(Z, n, 2 * n - 2)

\* list(range(n))
IdentityOrder(n) == [i \in 1 .. n |-> i - 1]

\* Faulty variant of the reordering: the rows are permuted, the columns are
\* left in input order.
ReorderRowsOnly(X, rows, cols) ==
    [i \in 1 .. Len(rows) |-> [j \in 1 .. Len(cols) |-> X[rows[i] + 1][j]]]

\* normalized_data[np.ix_(row_order, col_order)]
Reorder(X, rows, cols) ==
    [i \in 1 .. Len(rows) |-> [j \in 1 .. Len(cols) |-> X[rows[i] + 1][cols[j] + 1]]]

\* [labels[i] for i in order]
TakeLabels(labels, order) == [i \in 1 .. Len(order) |-> labels[order[i] + 1]]

\* Faulty variant of the packaging: the labels are put in leaf order.
PrepareDendrogramDataOrdered(linkage_matrix, labels, order) ==
    IF ~linkage_matrix.present THEN None
    ELSE [present |-> TRUE,
          linkage |-> linkage_matrix.Z,
          labels  |-> TakeLabels(labels, order),
          order   |-> order]

\* _prepare_dendrogram_data
PrepareDendrogramData(linkage_matrix, labels, order) ==
    IF ~linkage_matrix.present THEN None
    ELSE [present |-> TRUE,
          linkage |-> linkage_matrix.Z,
          labels  |-> labels,
          order   |-> order]

\* ---------------------------------------------------------------- actions

Init ==
    /\ pc = "entry"
    /\ data_df \in ExpressionFrames
    /\ normalized_data = <<>>
    /\ row_linkage = None
    /\ row_order = <<>>
    /\ col_linkage = None
    /\ col_order = <<>>
    /\ result = None

\* Faulty variant of the early return: the sample labels are returned even
\* when the frame is empty.
EarlyReturnKeepsSamples ==
    /\ pc = "entry"
    /\ Empty(data_df) \/ Shape0(data_df) < 2
    /\ result' = [present        |-> TRUE,
                  data           |-> IF Empty(data_df) THEN <<>> ELSE data_df.values,
                  genes          |-> IF Empty(data_df) THEN <<>> ELSE data_df.index,
                  samples        |-> data_df.columns,
                  row_dendrogram |-> None,
                  col_dendrogram |-> None]
    /\ pc' = "done"
    /\ UNCHANGED <<data_df, normalized_data, row_linkage, row_order,
                   col_linkage, col_order>>

\* if data_df.empty or data_df.shape[0] < 2: return the frame as it is.
EarlyReturn ==
    /\ pc = "entry"
    /\ Empty(data_df) \/ Shape0(data_df) < 2
    /\ result' = [present        |-> TRUE,
                  data           |-> IF Empty(data_df) THEN <<>> ELSE data_df.values,
                  genes          |-> IF Empty(data_df) THEN <<>> ELSE data_df.index,
                  samples        |-> IF Empty(data_df) THEN <<>> ELSE data_df.columns,
                  row_dendrogram |-> None,
                  col_dendrogram |-> None]
    /\ pc' = "done"
    /\ UNCHANGED <<data_df, normalized_data, row_linkage, row_order,
                   col_linkage, col_order>>

\* z-score across samples for each gene, then NaN -> 0.
Normalize ==
    /\ pc = "entry"
    /\ ~(Empty(data_df) \/ Shape0(data_df) < 2)
    /\ normalized_data' = NanToNum(NormalizeRows(data_df))
    /\ pc' = "rows"
    /\ UNCHANGED <<data_df, row_linkage, row_order, col_linkage, col_order, result>>

\* Row clustering (genes).
ClusterRows ==
    /\ pc = "rows"
    /\ LET m == Shape0(data_df)
       IN  IF m > 1
           THEN LET Z == Linkage(normalized_data, m)
                IN  /\ row_linkage' = [present |-> TRUE, Z |-> Z]
                    /\ row_order' = DendrogramLeaves(Z, m)
           ELSE /\ row_linkage' = None
                /\ row_order' = IdentityOrder(m)
    /\ pc' = "cols"
    /\ UNCHANGED <<data_df, normalized_data, col_linkage, col_order, result>>

\* Column clustering (samples).
ClusterCols ==
    /\ pc = "cols"
    /\ LET m == Shape0(data_df)
           n == Shape1(data_df)
       IN  IF n > 1
           THEN LET Z == Linkage(Transpose(normalized_data, m, n), n)
                IN  /\ col_linkage' = [present |-> TRUE, Z |-> Z]
                    /\ col_order' = DendrogramLeaves(Z, n)
           ELSE /\ col_linkage' = None
                /\ col_order' = IdentityOrder(n)
    /\ pc' = "package"
    /\ UNCHANGED <<data_df, normalized_data, row_linkage, row_order, result>>

\* Reorder the matrix and the labels, package the dendrograms, return.
Package ==
    /\ pc = "package"
    /\ result' = [present        |-> TRUE,
                  data           |-> Reorder(normalized_data, row_order, col_order),
                  genes          |-> TakeLabels(data_df.index, row_order),
                  samples        |-> TakeLabels(data_df.columns, col_order),
                  row_dendrogram |-> PrepareDendrogramData(row_linkage,
                                                           data_df.index, row_order),
                  col_dendrogram |-> PrepareDendrogramData(col_linkage,
                                                           data_df.columns, col_order)]
    /\ pc' = "done"
    /\ UNCHANGED <<data_df, normalized_data, row_linkage, row_order,
                   col_linkage, col_order>>

Next == EarlyReturn \/ Normalize \/ ClusterRows \/ ClusterCols \/ Package

Spec == Init /\ [][Next]_vars

\* ------------------------------------------------------- claim vocabulary

Done == pc = "done"

\* The run took the clustering path (at least 2 genes, at least 1 sample).
Clustered == Done /\ Shape0(data_df) >= 2 /\ ~Empty(data_df)

IsPermutation(order, n) ==
    Len(order) = n /\ { order[k] : k \in 1 .. Len(order) } = Range0(n)

\* The original items below cluster id of a tree over n items.
RECURSIVE Members(_, _, _)
Members(Z, n, id) ==
    IF id < n THEN {id}
    ELSE Members(Z, n, Z[id - n + 1].left) \cup Members(Z, n, Z[id - n + 1].right)

\* The number of original items cluster id holds, as the tree records it.
CountOf(Z, n, id) == IF id < n THEN 1 ELSE Z[id - n + 1].count

\* Every merge refers to two different identifiers that exist before it.
RefersBackward(Z, n) ==
    /\ Len(Z) = n - 1
    /\ \A i \in 1 .. Len(Z) :
         /\ Z[i].left \in 0 .. (n + i - 2)
         /\ Z[i].right \in 0 .. (n + i - 2)
         /\ Z[i].left # Z[i].right

\* The clusters that exist just before merge i (1-based) of the tree.
Alive(Z, n, i) ==
    (0 .. (n + i - 2)) \ UNION { {Z[j].left, Z[j].right} : j \in 1 .. (i - 1) }

\* The mean of the pairwise distances between the members of A and of B,
\* from the pairwise distances of the original items.
AvgDist(dists, n, A, B) ==
    Rat(SeqSum([k \in 1 .. n * n |->
                  LET a == (k - 1) \div n
                      b == (k - 1) % n
                  IN  IF a \in A /\ b \in B THEN dists[PairIdx(a, b)] ELSE 0],
               n * n),
        Cardinality(A) * Cardinality(B))

ClusterDist(Z, X, n, a, b) ==
    AvgDist(Pdist(X, n), n, Members(Z, n, a), Members(Z, n, b))

\* Merge i joins a pair of least average distance and records that distance.
MergesNearest(Z, X, n) ==
    \A i \in 1 .. Len(Z) :
       LET d == ClusterDist(Z, X, n, Z[i].left, Z[i].right)
       IN  /\ Z[i].dist = d
           /\ \A a, b \in Alive(Z, n, i) :
                a < b => RatLeq(d, ClusterDist(Z, X, n, a, b))

\* Merge i joins, among the pairs of least average distance, the one with
\* the lowest first identifier and then the lowest second identifier.
MergesLowestNearest(Z, X, n) ==
    \A i \in 1 .. Len(Z) :
       LET d == ClusterDist(Z, X, n, Z[i].left, Z[i].right)
       IN  \A a, b \in Alive(Z, n, i) :
              a < b =>
                LET e == ClusterDist(Z, X, n, a, b)
                IN  \/ RatLess(d, e)
                    \/ /\ e = d
                       /\ \/ Z[i].left < a
                          \/ Z[i].left = a /\ Z[i].right <= b

\* The position (1-based) of item x in an order that holds it.
Pos(order, x) == CHOOSE k \in 1 .. Len(order) : order[k] = x

\* At every merge the left child's items all come before the right child's.
LeftBeforeRight(Z, n, order) ==
    \A i \in 1 .. Len(Z) :
       \A a \in Members(Z, n, Z[i].left), b \in Members(Z, n, Z[i].right) :
          Pos(order, a) < Pos(order, b)

\* The z-scores cluster_data computes for the input frame.
Normalized == NanToNum(NormalizeRows(data_df))

ZeroRow(n) == [j \in 1 .. n |-> 0]

ConstantRow(row) == \A j, k \in 1 .. Len(row) : row[j] = row[k] /\ row[j] # NaN

\* ----------------------------------------------------------------- claims

\* C1: with at least 2 rows the row leaf order used to reorder the matrix
\* is a permutation of 0..M-1 (all in range, none repeated, none missing),
\* and with at least 2 columns the column leaf order is one of 0..N-1.
C1_LeafOrderIsPermutation ==
    Clustered =>
       /\ row_linkage.present
       /\ IsPermutation(row_order, Shape0(data_df))
       /\ Len(result.genes) = Shape0(data_df)
       /\ Shape1(data_df) >= 2 =>
            /\ col_linkage.present
            /\ IsPermutation(col_order, Shape1(data_df))
            /\ Len(result.samples) = Shape1(data_df)

C1_Witness ==
    /\ Clustered
    /\ Shape0(data_df) >= 3 /\ Shape1(data_df) >= 3
    /\ row_order # IdentityOrder(Shape0(data_df))
    /\ col_order # IdentityOrder(Shape1(data_df))

\* C2: a linkage tree over K >= 2 items has exactly K-1 merges; merge i
\* (0-based) creates identifier K+i, so it refers only to identifiers below
\* K+i, every identifier but the root 2K-2 is merged exactly once, and the
\* member count of each merge is the sum of its children's counts.
TreeWellFormed(Z, n) ==
    /\ RefersBackward(Z, n)
    /\ \A id \in 0 .. (2 * n - 3) :
         Cardinality({ i \in 1 .. Len(Z) : id \in {Z[i].left, Z[i].right} }) = 1
    /\ \A i \in 1 .. Len(Z) :
         Z[i].count = CountOf(Z, n, Z[i].left) + CountOf(Z, n, Z[i].right)
    /\ Z[n - 1].count = n

C2_LinkageTreeShape ==
    /\ row_linkage.present => TreeWellFormed(row_linkage.Z, Shape0(data_df))
    /\ col_linkage.present => TreeWellFormed(col_linkage.Z, Shape1(data_df))

C2_Witness ==
    /\ Done /\ row_linkage.present /\ col_linkage.present
    /\ \E i \in 1 .. Len(row_linkage.Z) :
          /\ row_linkage.Z[i].left >= Shape0(data_df)
          /\ row_linkage.Z[i].right >= Shape0(data_df)

\* C3 as stated: every merge joins the pair of least average member
\* distance, and among pairs tied at that least distance the one with the
\* lower first and then lower second identifier.
C3_LowestIdentifierTieBreak ==
    Done =>
       /\ row_linkage.present =>
            MergesLowestNearest(row_linkage.Z, normalized_data, Shape0(data_df))
       /\ col_linkage.present =>
            MergesLowestNearest(col_linkage.Z,
                                Transpose(normalized_data, Shape0(data_df),
                                          Shape1(data_df)),
                                Shape1(data_df))

\* C3 amended: every merge joins a pair whose average member distance is
\* least among all current cluster pairs and records that average as its
\* distance; which of several tied pairs is joined is not the lowest one.
C3_MergesNearestPair ==
    Done =>
       /\ row_linkage.present =>
            /\ RefersBackward(row_linkage.Z, Shape0(data_df))
            /\ MergesNearest(row_linkage.Z, normalized_data, Shape0(data_df))
       /\ col_linkage.present =>
            /\ RefersBackward(col_linkage.Z, Shape1(data_df))
            /\ MergesNearest(col_linkage.Z,
                             Transpose(normalized_data, Shape0(data_df),
                                       Shape1(data_df)),
                             Shape1(data_df))

\* A run in which tied pairs exist and the pair joined is not the lowest.
C3_Witness ==
    /\ Done /\ row_linkage.present
    /\ MergesNearest(row_linkage.Z, normalized_data, Shape0(data_df))
    /\ ~MergesLowestNearest(row_linkage.Z, normalized_data, Shape0(data_df))

\* C4: the leaf order is the root-first traversal that finishes the left
\* child's subtree before the right child's: the order is a permutation in
\* which, at every merge, all items of the left child precede all items of
\* the right child (children as recorded, not reordered by size or distance).
C4_LeftChildFirst ==
    Done =>
       /\ row_linkage.present =>
            /\ RefersBackward(row_linkage.Z, Shape0(data_df))
            /\ IsPermutation(row_order, Shape0(data_df))
            /\ LeftBeforeRight(row_linkage.Z, Shape0(data_df), row_order)
       /\ col_linkage.present =>
            /\ RefersBackward(col_linkage.Z, Shape1(data_df))
            /\ IsPermutation(col_order, Shape1(data_df))
            /\ LeftBeforeRight(col_linkage.Z, Shape1(data_df), col_order)

C4_Witness ==
    /\ Done /\ row_linkage.present /\ Shape0(data_df) >= 4
    /\ row_order # IdentityOrder(Shape0(data_df))
    /\ LET root == row_linkage.Z[Shape0(data_df) - 1]
       IN  root.left >= Shape0(data_df) /\ root.right >= Shape0(data_df)

\* C5: a single-gene matrix with a constant row returns row order [0]
\* (its one gene), no row dendrogram, and the normalized row of zeros.
C5_SingleConstantGeneNormalized ==
    (Done /\ Shape0(data_df) = 1 /\ ~Empty(data_df)
          /\ ConstantRow(data_df.values[1])) =>
       /\ result.genes = data_df.index
       /\ ~result.row_dendrogram.present
       /\ result.data = <<ZeroRow(Shape1(data_df))>>

\* C6: each axis's dendrogram is decided by that axis alone: for a matrix
\* with at least one gene, the row dendrogram is absent iff there are fewer
\* than 2 rows and the column dendrogram iff there are fewer than 2 columns.
C6_DendrogramPerAxis ==
    (Done /\ Shape0(data_df) >= 1) =>
       /\ ~result.row_dendrogram.present <=> Shape0(data_df) < 2
       /\ ~result.col_dendrogram.present <=> Shape1(data_df) < 2

\* C7 as stated: a dendrogram's labels are in leaf order, labels[i] being
\* the label of reordered row/column i.
C7_DendrogramLabelsInLeafOrder ==
    Done =>
       /\ result.row_dendrogram.present =>
            result.row_dendrogram.labels = result.genes
       /\ result.col_dendrogram.present =>
            result.col_dendrogram.labels = result.samples

\* C7 amended: a dendrogram's labels are the axis's labels in input order
\* and its order is the leaf order, so labels[order[i]] is the label of
\* reordered row/column i.
C7_DendrogramLabelsInInputOrder ==
    Done =>
       /\ result.row_dendrogram.present =>
            /\ result.row_dendrogram.labels = data_df.index
            /\ result.row_dendrogram.order = row_order
            /\ \A i \in 1 .. Len(result.genes) :
                 result.row_dendrogram.labels[result.row_dendrogram.order[i] + 1]
                    = result.genes[i]
       /\ result.col_dendrogram.present =>
            /\ result.col_dendrogram.labels = data_df.columns
            /\ result.col_dendrogram.order = col_order
            /\ \A j \in 1 .. Len(result.samples) :
                 result.col_dendrogram.labels[result.col_dendrogram.order[j] + 1]
                    = result.samples[j]

C7_Witness ==
    /\ Done
    /\ result.row_dendrogram.present /\ result.col_dendrogram.present
    /\ result.row_dendrogram.labels # result.genes
    /\ result.col_dendrogram.labels # result.samples

\* C8: with at least 2 rows the reordered output stays in lockstep with its
\* labels: data[i][j] is the normalized input cell (row_order[i],
\* col_order[j]), genes[i] and samples[j] are the input labels there, and
\* the (gene, sample, value) triples are those of the normalized input.
C8_ReorderInLockstep ==
    Clustered =>
       /\ Len(result.data) = Shape0(data_df)
       /\ \A i \in 1 .. Shape0(data_df) :
            /\ Len(result.data[i]) = Shape1(data_df)
            /\ result.genes[i] = data_df.index[row_order[i] + 1]
            /\ \A j \in 1 .. Shape1(data_df) :
                 /\ result.samples[j] = data_df.columns[col_order[j] + 1]
                 /\ result.data[i][j]
                      = Normalized[row_order[i] + 1][col_order[j] + 1]
       /\ { <<result.genes[i], result.samples[j], result.data[i][j]>> :
              i \in 1 .. Shape0(data_df), j \in 1 .. Shape1(data_df) }
          = { <<data_df.index[i], data_df.columns[j], Normalized[i][j]>> :
              i \in 1 .. Shape0(data_df), j \in 1 .. Shape1(data_df) }

C8_Witness ==
    /\ Clustered
    /\ row_order # IdentityOrder(Shape0(data_df))
    /\ col_order # IdentityOrder(Shape1(data_df))
    /\ result.data # Normalized

\* C9: a constant row normalizes to a row of zeros, and every cell that
\* would be NaN is replaced by 0, so every cell of the returned data matrix
\* is finite.
C9_ReturnedDataFinite ==
    /\ pc \in {"rows", "cols", "package", "done"} /\ normalized_data # <<>> =>
         \A i \in 1 .. Shape0(data_df) :
            /\ \A j \in 1 .. Shape1(data_df) : normalized_data[i][j] # NaN
            /\ ConstantRow(data_df.values[i]) =>
                 normalized_data[i] = ZeroRow(Shape1(data_df))
    /\ Done =>
         \A i \in 1 .. Len(result.data) :
            \A j \in 1 .. Len(result.data[i]) : result.data[i][j] # NaN

\* C10: an empty matrix (0 rows) returns empty data, empty gene and sample
\* label lists and no dendrogram on either axis, and the call returns.
C10_EmptyMatrix ==
    Shape0(data_df) = 0 =>
       /\ pc = "entry" => ENABLED EarlyReturn
       /\ pc \in {"entry", "done"}
       /\ Done =>
            /\ result.data = <<>>
            /\ result.genes = <<>>
            /\ result.samples = <<>>
            /\ ~result.row_dendrogram.present
            /\ ~result.col_dendrogram.present

C10_Witness == Done /\ Shape0(data_df) = 0 /\ Shape1(data_df) >= 2

====
